---- MODULE Spec2Model ----
(***************************************************************************)
(* A model of pydsm/model.py: the construction pipeline of a               *)
(* distributional semantic model (DSM.__init__), the context generator     *)
(* (_vocabularize), the two accumulation strategies (CooccurrenceDSM and   *)
(* RandomIndexing _build), threshold filtering and apply_weighting.        *)
(*                                                                         *)
(* Python values are modelled as follows.  A token is a string.  A         *)
(* sentence is a sequence of elements; an element is a record              *)
(* [list |-> BOOLEAN, toks |-> sequence of tokens]: a plain str token has  *)
(* list = FALSE and one token, an n-gram group (a Python list) has         *)
(* list = TRUE.  A dict is a function whose DOMAIN is its key set.  None   *)
(* as a keyword value is the empty sequence and a value v is <<v>>.        *)
(* List positions are Python's (0-based) wherever the source computes      *)
(* with them.                                                              *)
(***************************************************************************)
EXTENDS Integers, Sequences, FiniteSets, TLC

(***************************************************************************)
(* Bounds of the model.                                                    *)
(***************************************************************************)
MaxCorpusLen == 3
MaxCorpusLenRI == 2
MaxWindow == 1
MaxThreshold == 1
MaxNumIndices == 3

Tokens == {"a", "b"}
NGrams == {<<"a", "b">>}

Word(t) == [list |-> FALSE, toks |-> <<t>>]
NGram(q) == [list |-> TRUE, toks |-> q]
Elements == {Word(t) : t \in Tokens} \cup {NGram(q) : q \in NGrams}
\* the sentences of at most n positions
Sentences(n) == UNION {[1..k -> Elements] : k \in 0..n}

None == <<>>
Some(v) == <<v>>
Opt(S) == {None} \cup {Some(v) : v \in S}

EmptyDict == <<>>

VARIABLES
  pc,           \* "new" | "building" | "built" | "failed"
  self_type,    \* type(self)
  error,        \* the exception that ended the call, "" when none
  window_size,  \* self.window_size
  config,       \* self.config
  vocabulary,   \* self._vocabulary
  matrix,       \* self.matrix
  nread,        \* positions of the sentences the generator has pulled so far
  sentence,     \* _vocabularize: the sentence being walked
  i,            \* _vocabularize: position in the sentence (0-based)
  j,            \* _vocabularize: index of the next focus in the group at i
  frame,        \* _vocabularize: the locals of the last loop body run
  colfreqs,     \* _build: the accumulator
  row2word,     \* _build (RandomIndexing): insertion order of colfreqs
  word_to_col,  \* _build (RandomIndexing): cached index vectors
  split,        \* _build (RandomIndexing): pos/neg lists of the last pair
  args,         \* history: the arguments the constructor was called with
  occ,          \* history: per token, its occurrences in the sentences read
  emitted,      \* history: <<focus, context>> -> occurrences in the pairs yielded
  dropped,      \* history: <<focus, context>> occurrences the filter dropped
  aw            \* outcome of the last apply_weighting call

vars == <<pc, self_type, error, window_size, config, vocabulary, matrix,
          nread, sentence, i, j, frame, colfreqs, row2word, word_to_col,
          split, args, occ, emitted, dropped, aw>>

(***************************************************************************)
(* dict and list primitives                                                *)
(***************************************************************************)
Max(a, b) == IF a >= b THEN a ELSE b
Min(a, b) == IF a <= b THEN a ELSE b

\* d.get(k, default)
Get(d, k, default) == IF k \in DOMAIN d THEN d[k] ELSE default

\* d[k] = v
Put(d, k, v) == [x \in DOMAIN d \cup {k} |-> IF x = k THEN v ELSE d[x]]

\* reading the keys S of a defaultdict(int) inserts the missing ones with 0
Touch(d, S) == [x \in DOMAIN d \cup S |-> IF x \in DOMAIN d THEN d[x] ELSE 0]

\* s[lo:hi] for 0 <= lo and 0 <= hi
PySlice(s, lo, hi) == SubSeq(s, lo + 1, Min(hi, Len(s)))

Range(s) == {s[k] : k \in 1..Len(s)}

\* number of k with s[k] = x
RECURSIVE Count(_, _)
Count(s, x) ==
  IF s = <<>> THEN 0 ELSE (IF Head(s) = x THEN 1 ELSE 0) + Count(Tail(s), x)

(***************************************************************************)
(* _flatten (lines 24-32)                                                  *)
(***************************************************************************)
RECURSIVE _flatten(_)
_flatten(context) ==
  IF context = <<>> THEN <<>>
  ELSE LET c == Head(context)
       IN (IF c.list THEN c.toks ELSE <<c.toks[1]>>) \o _flatten(Tail(context))

(***************************************************************************)
(* _vocabularize (lines 139-174): the body of the innermost loop.          *)
(***************************************************************************)
\* lines 152-153: a str position is a group of one
Focuses(focuses) == IF ~focuses.list THEN <<focuses.toks[1]>> ELSE focuses.toks

\* deviating variant: the count is set, not incremented
IncVocabulary_assign(vocab, focus) == Put(vocab, focus, 1)

\* line 155: self.vocabulary[focus] += 1
IncVocabulary(vocab, focus) == Put(vocab, focus, Get(vocab, focus, 0) + 1)

\* line 158
WindowLeft(i0, ws) == IF i0 - ws[1] > 0 THEN i0 - ws[1] ELSE 0

\* deviating variant: the right edge without the + 1
WindowRight_short(i0, ws, n) == IF i0 + ws[2] <= n THEN i0 + ws[2] ELSE n

\* line 159
WindowRight(i0, ws, n) == IF i0 + ws[2] + 1 <= n THEN i0 + ws[2] + 1 ELSE n

\* deviating variant: the lookup of line 156, config.get('lower_threshold', 0)
LowerThresholdLookup_get(cfg) == Some(Get(cfg, "lower_threshold", 0))

\* line 164: self.config['lower_threshold']; None stands for the KeyError
\* a missing key raises
LowerThresholdLookup(cfg) ==
  IF "lower_threshold" \in DOMAIN cfg THEN Some(cfg["lower_threshold"])
  ELSE None

\* deviating variant: >= for >
ThresholdFilter_ge(ctx, vocab, T) == SelectSeq(ctx, LAMBDA w : vocab[w] >= T)

\* lines 165-166: [w for w in ctx if self.vocabulary[w] > T]
ThresholdFilter(ctx, vocab, T) == SelectSeq(ctx, LAMBDA w : vocab[w] > T)

\* lines 168-169: [w + suffix for w in ctx]
DirectedTag(ctx, suffix) == [k \in 1..Len(ctx) |-> ctx[k] \o suffix]

\* deviating variant: the index of enumerate, without the + 1
OrderedTag_zero(ctx) ==
  [k \in 1..Len(ctx) |-> ctx[k] \o "_" \o ToString(k - 1)]

\* lines 171-172: [w + '_{}'.format(i+1) for i, w in enumerate(ctx)]
OrderedTag(ctx) ==
  [k \in 1..Len(ctx) |-> ctx[k] \o "_" \o ToString((k - 1) + 1)]

NoFrame ==
  [ran |-> FALSE, yielded |-> FALSE, i |-> 0, focus |-> "", left |-> 0,
   right |-> 0, raw_left |-> <<>>, raw_right |-> <<>>, kept_left |-> <<>>,
   kept_right |-> <<>>, context_left |-> <<>>, context_right |-> <<>>]

\* One run of lines 155-174 for `focus` at position i0 of sentence s; the
\* result carries the locals and the vocabulary as the body leaves it.
LoopBody(s, i0, focus, ws, cfg, vocab) ==
  LET v1 == IncVocabulary(vocab, focus)
      left == WindowLeft(i0, ws)
      right == WindowRight(i0, ws, Len(s))
      cl0 == _flatten(PySlice(s, left, i0))
      cr0 == _flatten(PySlice(s, i0 + 1, right))
      base == [NoFrame EXCEPT !.ran = TRUE, !.i = i0, !.focus = focus,
                              !.left = left, !.right = right,
                              !.raw_left = cl0, !.raw_right = cr0]
      lookup == LowerThresholdLookup(cfg)
  IN IF lookup = None
     THEN [frame |-> base, vocabulary |-> v1]
     ELSE LET T == lookup[1]
              v2 == IF T # 0 THEN Touch(v1, Range(cl0) \cup Range(cr0)) ELSE v1
              cl1 == IF T # 0 THEN ThresholdFilter(cl0, v2, T) ELSE cl0
              cr1 == IF T # 0 THEN ThresholdFilter(cr0, v2, T) ELSE cr0
              directed == Get(cfg, "directed", FALSE)
              ordered == Get(cfg, "ordered", FALSE)
              cl2 == IF directed THEN DirectedTag(cl1, "_left") ELSE cl1
              cr2 == IF directed THEN DirectedTag(cr1, "_right") ELSE cr1
              cl3 == IF ordered THEN OrderedTag(cl2) ELSE cl2
              cr3 == IF ordered THEN OrderedTag(cr2) ELSE cr2
          IN [frame |-> [base EXCEPT !.yielded = TRUE,
                                     !.kept_left = cl1, !.kept_right = cr1,
                                     !.context_left = cl3,
                                     !.context_right = cr3],
              vocabulary |-> v2]

(***************************************************************************)
(* CooccurrenceDSM._build (lines 293-305)                                  *)
(***************************************************************************)
\* deviating variant: the cell is set, not incremented
IncCell_assign(cf, focus, context) ==
  Put(cf, focus, Put(Get(cf, focus, EmptyDict), context, 1))

\* line 303: colfreqs[focus][context] += 1 on a defaultdict of defaultdicts
IncCell(cf, focus, context) ==
  LET row == Get(cf, focus, EmptyDict)
  IN Put(cf, focus, Put(row, context, Get(row, context, 0) + 1))

\* lines 302-303 for one pair
RECURSIVE CoAccumulate(_, _, _)
CoAccumulate(cf, focus, contexts) ==
  IF contexts = <<>> THEN cf
  ELSE CoAccumulate(IncCell(cf, focus, Head(contexts)), focus, Tail(contexts))

(***************************************************************************)
(* DSM._filter_threshold_words (lines 177-190)                             *)
(***************************************************************************)
\* line 185, with the defaults of lines 182-183
OutOfBounds(freq, cfg) ==
  ~(/\ Get(cfg, "lower_threshold", 0) <= freq
    /\ ("higher_threshold" \in DOMAIN cfg => freq <= cfg["higher_threshold"]))

\* The deletions of lines 186-190 for every vocabulary word out of bounds:
\* the row keyed by the word, and the nested entry keyed by the word.
_filter_threshold_words(colloc_dict, vocab, cfg) ==
  LET out == {w \in DOMAIN vocab : OutOfBounds(vocab[w], cfg)}
  IN [f \in DOMAIN colloc_dict \ out |->
        [c \in DOMAIN colloc_dict[f] \ out |-> colloc_dict[f][c]]]

(***************************************************************************)
(* RandomIndexing._build (lines 349-384)                                   *)
(***************************************************************************)
\* line 360: np.zeros((1, dimensionality))[0]
Zeros(dim) == [d \in 0..(dim - 1) |-> 0]

\* line 369: the draws np.random.choice(indices, size=(1, num_indices))[0]
\* can return; the seed is hash(context), which differs between processes
IndexVectors(cfg) ==
  [1..cfg["num_indices"] -> 0..(cfg["dimensionality"] - 1)]

\* deviating variant: the split point rounded up
SplitPos_ceil(index_vector) ==
  PySlice(index_vector, 0, (Len(index_vector) + 1) \div 2)

\* line 372: word_to_col[context][:size//2]
SplitPos(index_vector) == PySlice(index_vector, 0, Len(index_vector) \div 2)

\* line 373: word_to_col[context][size//2:]
SplitNeg(index_vector) ==
  PySlice(index_vector, Len(index_vector) \div 2, Len(index_vector))

\* np.hstack of a list of 1-d arrays
RECURSIVE Hstack(_)
Hstack(arrays) ==
  IF arrays = <<>> THEN <<>> ELSE Head(arrays) \o Hstack(Tail(arrays))

\* np.add.at(acc, idx, c): repeated indices accumulate
AddAt(acc, idx, c) == [d \in DOMAIN acc |-> acc[d] + c * Count(idx, d)]

\* lines 359-378 for one pair, given the cache w2c as lines 365-370 leave it
RIAccumulate(cf, w2c, focus, contexts, cfg) ==
  LET cf1 == IF focus \in DOMAIN cf THEN cf
             ELSE Put(cf, focus, Zeros(cfg["dimensionality"]))
      pos == [k \in 1..Len(contexts) |-> SplitPos(w2c[contexts[k]])]
      neg == [k \in 1..Len(contexts) |-> SplitNeg(w2c[contexts[k]])]
      a1 == IF pos # <<>> THEN AddAt(cf1[focus], Hstack(pos), 1) ELSE cf1[focus]
      a2 == IF neg # <<>> THEN AddAt(a1, Hstack(neg), -1) ELSE a1
  IN [colfreqs |-> Put(cf1, focus, a2), pos |-> pos, neg |-> neg]

NoSplit == [focus |-> "", contexts |-> <<>>, pos |-> <<>>, neg |-> <<>>,
            before |-> <<>>]

(***************************************************************************)
(* Matrices.  IndexMatrix and the weighting functions are external; a      *)
(* matrix is the record of what it was constructed from.                   *)
(***************************************************************************)
NoMatrix == [form |-> "none"]
\* line 92: IndexMatrix(colloc_dict)
IndexMatrixOfDict(d) == [form |-> "dict", dict |-> d]
\* line 94: IndexMatrix(values, row2word, col2word)
IndexMatrixOfTriple(values, rows, cols) ==
  [form |-> "triple", values |-> values, row2word |-> rows, col2word |-> cols]
SuppliedMatrix(m) == [form |-> "supplied", id |-> m]
WeightFuncs == {"ppmi", "double"}
\* weight_func(self.matrix): a new matrix, the argument is not modified
Weighted(wf, m) == [form |-> "weighted", by |-> wf, of |-> m]

NoInstance ==
  [type |-> "", matrix |-> NoMatrix, window_size |-> <<>>,
   vocabulary |-> EmptyDict, config |-> EmptyDict]

(***************************************************************************)
(* Inputs                                                                  *)
(***************************************************************************)
WindowArgs == UNION {[1..n -> 0..MaxWindow] : n \in 1..3}
LowerThresholdArgs == Opt(0..MaxThreshold)
HigherThresholdArgs == Opt(1..MaxThreshold)
DimensionalityArgs == {1, 2}
MatrixArgs == Opt({"M"})
\* None and {} are both falsy (lines 74, 79): one value stands for both
VocabularyArgs == {EmptyDict, [t \in {"a"} |-> 1]}
ConfigArgs == {EmptyDict, [k \in {"lower_threshold"} |-> 1]}

NoArgs == [window_size |-> <<>>, matrix |-> None, vocabulary |-> EmptyDict]

\* no apply_weighting call yet
NoCall ==
  [called |-> FALSE, weight_func |-> "", error |-> "", result |-> NoInstance,
   before |-> NoInstance]

\* a vocabulary is supplied together with a matrix (docstring, lines
\* 277-278): a build from a corpus starts with no vocabulary
BuildInput(m, voc) == m = None => voc = EmptyDict

\* Every index-vector draw multiplies the states of a random-indexing build:
\* the builds explored are the untagged ones with a symmetric window, no
\* upper threshold and a lower threshold that is absent or 0.
RandomIndexingBuildInput(m, ws, cfg, lo, hi, ord, dir) ==
  (m = None /\ Len(ws) = 2) =>
    /\ ws[1] = ws[2]
    /\ cfg = EmptyDict
    /\ lo \in {None, Some(0)}
    /\ hi = None
    /\ ~ord /\ ~dir

Init ==
  /\ pc = "new"
  /\ self_type = ""
  /\ error = ""
  /\ window_size = <<>>
  /\ config = EmptyDict
  /\ vocabulary = EmptyDict
  /\ matrix = NoMatrix
  /\ nread = 0
  /\ sentence = <<>>
  /\ i = 0
  /\ j = 1
  /\ frame = NoFrame
  /\ colfreqs = EmptyDict
  /\ row2word = <<>>
  /\ word_to_col = EmptyDict
  /\ split = NoSplit
  /\ args = NoArgs
  /\ occ = [t \in Tokens |-> 0]
  /\ emitted = EmptyDict
  /\ dropped = {}
  /\ aw = NoCall

build_vars == <<nread, sentence, i, j, frame, colfreqs, row2word, word_to_col,
                split, occ, emitted, dropped>>

(***************************************************************************)
(* DSM.__init__ (lines 62-97), up to the start of the build                *)
(***************************************************************************)
\* lines 74-84: config, then every keyword whose value is not None
MergeConfig(cfg, kwargs) ==
  LET given == {k \in DOMAIN kwargs : kwargs[k] # None}
  IN [k \in DOMAIN cfg \cup given |->
        IF k \in given THEN kwargs[k][1] ELSE cfg[k]]

DSM_init(typ, m, ws, voc, cfg, kwargs) ==
  /\ self_type' = typ
  /\ args' = [window_size |-> ws, matrix |-> m, vocabulary |-> voc]
  /\ IF Len(ws) # 2
     THEN /\ pc' = "failed"
          /\ error' = "TypeError: Window size must be a tuple of length 2."
          /\ UNCHANGED <<window_size, config, vocabulary, matrix>>
     ELSE /\ window_size' = ws
          /\ config' = MergeConfig(cfg, kwargs)
          /\ vocabulary' = voc
          /\ error' = ""
          /\ IF m = None
             THEN pc' = "building" /\ matrix' = NoMatrix
             ELSE pc' = "built" /\ matrix' = SuppliedMatrix(m[1])
  /\ UNCHANGED <<build_vars, aw>>

(***************************************************************************)
(* The constructors                                                        *)
(***************************************************************************)
\* the parameters of DSM.__init__ after self; none has a default (lines 62-68)
DSM_init_params == <<"matrix", "corpus", "window_size", "vocabulary", "config">>

\* the parameters a call with npos positional arguments and the keywords
\* kwnames leaves unbound: Python raises TypeError before the body runs
MissingArgs(npos, kwnames) ==
  {DSM_init_params[k] : k \in (npos + 1)..Len(DSM_init_params)} \ kwnames

\* lines 284-291: four positional arguments and four keywords
CooccurrenceDSM_super_npos == 4
CooccurrenceDSM_super_kwnames ==
  {"lower_threshold", "higher_threshold", "ordered", "directed"}

\* lines 336-346: five positional arguments and six keywords
RandomIndexing_super_npos == 5
RandomIndexing_super_kwnames ==
  {"lower_threshold", "higher_threshold", "dimensionality", "num_indices",
   "ordered", "directed"}

\* RandomIndexing.__init__ defaults (lines 315-316)
DefaultDimensionality == 2000
DefaultNumIndices == 8

CooccurrenceKwargs(lo, hi, ord, dir) ==
  [k \in CooccurrenceDSM_super_kwnames |->
     CASE k = "lower_threshold" -> lo
       [] k = "higher_threshold" -> hi
       [] k = "ordered" -> Some(ord)
       [] k = "directed" -> Some(dir)]

RandomIndexingKwargs(lo, hi, dim, num, ord, dir) ==
  [k \in RandomIndexing_super_kwnames |->
     CASE k = "lower_threshold" -> lo
       [] k = "higher_threshold" -> hi
       [] k = "dimensionality" -> Some(dim)
       [] k = "num_indices" -> Some(num)
       [] k = "ordered" -> Some(ord)
       [] k = "directed" -> Some(dir)]

\* CooccurrenceDSM(corpus, window_size, ...): lines 262-291
CooccurrenceDSM_init ==
  /\ pc = "new"
  /\ \E ws \in WindowArgs, m \in MatrixArgs, voc \in VocabularyArgs :
       /\ MissingArgs(CooccurrenceDSM_super_npos,
                      CooccurrenceDSM_super_kwnames) # {}
       /\ self_type' = "CooccurrenceDSM"
       /\ args' = [window_size |-> ws, matrix |-> m, vocabulary |-> voc]
       /\ pc' = "failed"
       /\ error' = "TypeError: __init__() missing 1 required positional argument"
       /\ UNCHANGED <<window_size, config, vocabulary, matrix, build_vars,
                      aw>>

\* RandomIndexing(corpus, window_size, ...): lines 309-346
RandomIndexing_init(matrices) ==
  /\ pc = "new"
  /\ MissingArgs(RandomIndexing_super_npos, RandomIndexing_super_kwnames) = {}
  /\ \E ws \in WindowArgs, m \in matrices, voc \in VocabularyArgs,
        cfg \in ConfigArgs, lo \in LowerThresholdArgs,
        hi \in HigherThresholdArgs, dim \in DimensionalityArgs, num \in 1..MaxNumIndices,
        ord \in BOOLEAN, dir \in BOOLEAN :
       /\ BuildInput(m, voc)
       /\ RandomIndexingBuildInput(m, ws, cfg, lo, hi, ord, dir)
       /\ DSM_init("RandomIndexing", m, ws, voc, cfg,
                   RandomIndexingKwargs(lo, hi, dim, num, ord, dir))

\* DSM.__init__ run on a CooccurrenceDSM object with all five positional
\* arguments bound and the keywords of lines 288-291: the call of lines
\* 284-291 with config supplied.
DSM_init_direct ==
  /\ pc = "new"
  /\ \E ws \in WindowArgs, m \in MatrixArgs, voc \in VocabularyArgs,
        cfg \in ConfigArgs, lo \in LowerThresholdArgs, hi \in HigherThresholdArgs,
        ord \in BOOLEAN, dir \in BOOLEAN :
       /\ BuildInput(m, voc)
       /\ DSM_init("CooccurrenceDSM", m, ws, voc, cfg,
                   CooccurrenceKwargs(lo, hi, ord, dir))

(***************************************************************************)
(* The build: colloc_dict = self._build(self._vocabularize(corpus)),       *)
(* lines 86-94.  The generator runs one loop body per pair _build pulls.   *)
(***************************************************************************)
AtSentenceEnd == i >= Len(sentence)

\* occurrences of token t in sentence s, every member of a group counted
OccIn(s, t) ==
  Cardinality({pq \in (1..Len(s)) \X (1..2) :
                 pq[2] <= Len(s[pq[1]].toks) /\ s[pq[1]].toks[pq[2]] = t})

\* the positions the corpus may hold; a random-indexing build has a bound
\* of its own
CorpusBudget ==
  IF self_type = "RandomIndexing" THEN MaxCorpusLenRI ELSE MaxCorpusLen

\* line 148: the generator pulls the next sentence from the corpus
ReadSentence ==
  /\ pc = "building"
  /\ AtSentenceEnd
  /\ \E s \in Sentences(CorpusBudget - nread) :
       /\ sentence' = s
       /\ nread' = nread + Len(s)
       /\ occ' = [t \in Tokens |-> occ[t] + OccIn(s, t)]
  /\ i' = 0
  /\ j' = 1
  /\ frame' = NoFrame
  /\ split' = NoSplit
  /\ UNCHANGED <<pc, self_type, error, window_size, config, vocabulary,
                 matrix, colfreqs, row2word, word_to_col, args, emitted,
                 dropped, aw>>

CurFocus == Focuses(sentence[i + 1])[j]
CurBody == LoopBody(sentence, i, CurFocus, window_size, config, vocabulary)
Contexts(fr) == fr.context_left \o fr.context_right

\* the generator's position after the pair for (i, j)
Advance ==
  IF j < Len(Focuses(sentence[i + 1]))
  THEN i' = i /\ j' = j + 1
  ELSE i' = i + 1 /\ j' = 1

\* history of what was yielded and what the filter dropped
Record(fr) ==
  /\ emitted' =
       [p \in DOMAIN emitted \cup {<<fr.focus, c>> : c \in Range(Contexts(fr))}
          |-> Get(emitted, p, 0)
              + (IF p[1] = fr.focus THEN Count(Contexts(fr), p[2]) ELSE 0)]
  /\ dropped' = dropped \cup
       {<<fr.focus, w>> : w \in Range(fr.raw_left \o fr.raw_right)
                                \ Range(fr.kept_left \o fr.kept_right)}

\* line 164 raises KeyError: the generator dies, the constructor with it
VocabularizeKeyError ==
  /\ pc = "building"
  /\ i < Len(sentence)
  /\ LET r == CurBody
     IN /\ ~r.frame.yielded
        /\ vocabulary' = r.vocabulary
        /\ frame' = r.frame
  /\ pc' = "failed"
  /\ error' = "KeyError: lower_threshold"
  /\ UNCHANGED <<self_type, window_size, config, matrix, nread, sentence, i, j,
                 colfreqs, row2word, word_to_col, split, args, occ, emitted,
                 dropped, aw>>

\* one pair through CooccurrenceDSM._build
StepCooccurrence ==
  /\ pc = "building"
  /\ self_type = "CooccurrenceDSM"
  /\ i < Len(sentence)
  /\ LET r == CurBody
     IN /\ r.frame.yielded
        /\ vocabulary' = r.vocabulary
        /\ frame' = r.frame
        /\ colfreqs' = CoAccumulate(colfreqs, r.frame.focus, Contexts(r.frame))
        /\ Record(r.frame)
  /\ Advance
  /\ UNCHANGED <<pc, self_type, error, window_size, config, matrix, nread,
                 sentence, row2word, word_to_col, split, args, occ, aw>>

\* one pair through RandomIndexing._build
StepRandomIndexing ==
  /\ pc = "building"
  /\ self_type = "RandomIndexing"
  /\ i < Len(sentence)
  /\ LET r == CurBody
         focus == r.frame.focus
         contexts == Contexts(r.frame)
         new == Range(contexts) \ DOMAIN word_to_col
     IN /\ r.frame.yielded
        /\ vocabulary' = r.vocabulary
        /\ frame' = r.frame
        /\ Record(r.frame)
        /\ \E draw \in [new -> IndexVectors(config)] :
             LET w2c == [c \in DOMAIN word_to_col \cup new |->
                           IF c \in new THEN draw[c] ELSE word_to_col[c]]
                 acc == RIAccumulate(colfreqs, w2c, focus, contexts, config)
             IN /\ word_to_col' = w2c
                /\ colfreqs' = acc.colfreqs
                /\ row2word' = IF focus \in DOMAIN colfreqs THEN row2word
                               ELSE Append(row2word, focus)
                /\ split' = [focus |-> focus, contexts |-> contexts,
                             pos |-> acc.pos, neg |-> acc.neg,
                             before |-> Get(colfreqs, focus,
                                            Zeros(config["dimensionality"]))]
  /\ Advance
  /\ UNCHANGED <<pc, self_type, error, window_size, config, matrix, nread,
                 sentence, args, occ, aw>>

\* the corpus is exhausted: _build returns a dict, lines 90-92
FinishCooccurrence ==
  /\ pc = "building"
  /\ self_type = "CooccurrenceDSM"
  /\ AtSentenceEnd
  /\ matrix' = IndexMatrixOfDict(
                 _filter_threshold_words(colfreqs, vocabulary, config))
  /\ pc' = "built"
  /\ frame' = NoFrame
  /\ UNCHANGED <<self_type, error, window_size, config, vocabulary, nread,
                 sentence, i, j, colfreqs, row2word, word_to_col, split,
                 args, occ, emitted, dropped, aw>>

\* the corpus is exhausted: lines 380-384, then lines 93-94.  np.vstack of
\* no rows raises ValueError.
FinishRandomIndexing ==
  /\ pc = "building"
  /\ self_type = "RandomIndexing"
  /\ AtSentenceEnd
  /\ IF row2word = <<>>
     THEN /\ pc' = "failed"
          /\ error' = "ValueError: need at least one array to concatenate"
          /\ matrix' = matrix
     ELSE /\ pc' = "built"
          /\ error' = error
          /\ matrix' = IndexMatrixOfTriple(
                         [k \in 1..Len(row2word) |-> colfreqs[row2word[k]]],
                         row2word,
                         [d \in 1..config["dimensionality"] |-> d - 1])
  /\ frame' = NoFrame
  /\ split' = NoSplit
  /\ UNCHANGED <<self_type, window_size, config, vocabulary, nread, sentence,
                 i, j, colfreqs, row2word, word_to_col, args, occ, emitted,
                 dropped>>
  /\ UNCHANGED aw

(***************************************************************************)
(* apply_weighting (lines 216-221) and _new_instance (lines 132-137)       *)
(***************************************************************************)
\* the attributes DSM.__init__ and the vocabulary property set on self
InstanceAttrs == {"window_size", "config", "_vocabulary", "matrix"}

\* type(self)(corpus=self.corpus, window_size=..., matrix=matrix,
\*            vocabulary=self.vocabulary, config=self.config)
_new_instance(typ, m, ws, voc, cfg) ==
  IF "corpus" \notin InstanceAttrs
  THEN [error |-> "AttributeError: corpus", result |-> NoInstance]
  ELSE IF typ = "CooccurrenceDSM"
  THEN [error |-> "TypeError: __init__() missing 1 required positional argument",
        result |-> NoInstance]
  ELSE [error |-> "",
        result |-> [type |-> typ, matrix |-> m, window_size |-> ws,
                    vocabulary |-> voc,
                    config |-> MergeConfig(cfg,
                      RandomIndexingKwargs(None, None, DefaultDimensionality,
                                           DefaultNumIndices, FALSE, FALSE))]]

apply_weighting ==
  /\ pc = "built"
  /\ ~aw.called
  /\ \E wf \in WeightFuncs :
       LET r == _new_instance(self_type, Weighted(wf, matrix), window_size,
                              vocabulary, config)
       IN aw' = [called |-> TRUE, weight_func |-> wf, error |-> r.error,
                 result |-> r.result,
                 before |-> [type |-> self_type, matrix |-> matrix,
                             window_size |-> window_size,
                             vocabulary |-> vocabulary, config |-> config]]
  /\ UNCHANGED <<pc, self_type, error, window_size, config, vocabulary, matrix,
                 build_vars, args>>

(***************************************************************************)
(* Spec explores the constructors, the co-occurrence build and             *)
(* apply_weighting; a RandomIndexing object is constructed around a        *)
(* supplied matrix.  SpecRI explores the RandomIndexing constructor with   *)
(* the random-indexing build.                                              *)
(***************************************************************************)
Next ==
  \/ CooccurrenceDSM_init
  \/ RandomIndexing_init({Some("M")})
  \/ DSM_init_direct
  \/ ReadSentence
  \/ VocabularizeKeyError
  \/ StepCooccurrence
  \/ FinishCooccurrence
  \/ apply_weighting

Spec == Init /\ [][Next]_vars

NextRI ==
  \/ RandomIndexing_init(MatrixArgs)
  \/ ReadSentence
  \/ VocabularizeKeyError
  \/ StepRandomIndexing
  \/ FinishRandomIndexing
  \/ apply_weighting

SpecRI == Init /\ [][NextRI]_vars

(***************************************************************************)
(* Reference definitions for the properties                                *)
(***************************************************************************)
WindowError == "TypeError: Window size must be a tuple of length 2."
KeyErrorLower == "KeyError: lower_threshold"

\* the build ran from a corpus (no matrix was supplied)
FromCorpus == pc \in {"building", "built"} /\ args.matrix = None

\* the tokens at the 0-based positions p of s with lo <= p < hi, in order
RECURSIVE TokensAt(_, _, _)
TokensAt(s, lo, hi) ==
  IF lo >= hi \/ lo >= Len(s) THEN <<>>
  ELSE s[lo + 1].toks \o TokensAt(s, lo + 1, hi)

\* occurrences of t as focus that lie at or after the generator's position
RemainingIn(s, i0, j0, t) ==
  Cardinality({pq \in (1..Len(s)) \X (1..2) :
                 /\ pq[2] <= Len(s[pq[1]].toks)
                 /\ s[pq[1]].toks[pq[2]] = t
                 /\ \/ pq[1] > i0 + 1
                    \/ pq[1] = i0 + 1 /\ pq[2] >= j0})

\* occurrences of t as focus processed so far
Processed(oc, s, i0, j0, t) == oc[t] - RemainingIn(s, i0, j0, t)

\* the tokens w of ctx with count[w] > T, in order
RECURSIVE Above(_, _, _)
Above(ctx, count, T) ==
  IF ctx = <<>> THEN <<>>
  ELSE (IF count[Head(ctx)] > T THEN <<Head(ctx)>> ELSE <<>>)
       \o Above(Tail(ctx), count, T)

Truthy(n) == n # 0

(***************************************************************************)
(* C1: every pair _vocabularize yields has, before threshold filtering and *)
(* tagging, the context flatten(sentence[max(0,i-L):i]) followed by        *)
(* flatten(sentence[i+1:min(n,i+R+1)]): the tokens of the window's         *)
(* positions of this sentence, in order, without the focus position.       *)
(***************************************************************************)
C1_ContextWindow ==
  frame.yielded =>
    LET L == window_size[1]
        R == window_size[2]
        n == Len(sentence)
    IN /\ frame.raw_left = TokensAt(sentence, Max(0, frame.i - L), frame.i)
       /\ frame.raw_right =
            TokensAt(sentence, frame.i + 1, Min(n, frame.i + R + 1))

\* the window is clamped on the left, leaves a position out on the right
\* and takes in an n-gram group
C1_Witness ==
  /\ frame.yielded
  /\ frame.i - window_size[1] < 0
  /\ frame.i + window_size[2] + 1 < Len(sentence)
  /\ Len(frame.raw_right) = 2

(***************************************************************************)
(* C2: when CooccurrenceDSM._build has consumed every pair, counts[f][c]   *)
(* is the number of occurrences of c in the context lists yielded for f,   *)
(* and there is no entry for a pair that never co-occurred.                *)
(***************************************************************************)
C2_Cooccurrence ==
  (pc = "built" /\ matrix.form = "dict") =>
    /\ \A f \in DOMAIN colfreqs : \A c \in DOMAIN colfreqs[f] :
         /\ <<f, c>> \in DOMAIN emitted
         /\ colfreqs[f][c] = emitted[<<f, c>>]
         /\ colfreqs[f][c] > 0
    /\ \A p \in DOMAIN emitted :
         /\ p[1] \in DOMAIN colfreqs
         /\ p[2] \in DOMAIN colfreqs[p[1]]

\* a focus seen once whose one context list held the same token twice
C2_Witness ==
  /\ pc = "built"
  /\ matrix.form = "dict"
  /\ \E f \in DOMAIN colfreqs : \E c \in DOMAIN colfreqs[f] :
       vocabulary[f] = 1 /\ colfreqs[f][c] = 2

(***************************************************************************)
(* C3 (as claimed): after a co-occurrence build, a token whose final       *)
(* frequency is outside [lower_threshold, higher_threshold] has no row and *)
(* no column entry under any remaining row, whatever directed and ordered  *)
(* are; rows and entries of tokens within the bounds keep their counts.    *)
(***************************************************************************)
\* the column keys under which _vocabularize records token w
ColumnKeys(w) ==
  {w \o d \o o : d \in {"", "_left", "_right"},
                 o \in {""} \cup {"_" \o ToString(k) : k \in 1..(2 * MaxCorpusLen)}}

WithinBounds(w) ==
  /\ Get(config, "lower_threshold", 0) <= vocabulary[w]
  /\ "higher_threshold" \in DOMAIN config =>
       vocabulary[w] <= config["higher_threshold"]

C3_ThresholdFiltered ==
  (pc = "built" /\ matrix.form = "dict") =>
    /\ \A w \in DOMAIN vocabulary : ~WithinBounds(w) =>
         /\ w \notin DOMAIN matrix.dict
         /\ \A f \in DOMAIN matrix.dict :
              DOMAIN matrix.dict[f] \cap ColumnKeys(w) = {}
    /\ \A f \in DOMAIN colfreqs : WithinBounds(f) =>
         /\ f \in DOMAIN matrix.dict
         /\ \A w \in DOMAIN vocabulary : WithinBounds(w) =>
              \A c \in DOMAIN colfreqs[f] \cap ColumnKeys(w) :
                /\ c \in DOMAIN matrix.dict[f]
                /\ matrix.dict[f][c] = colfreqs[f][c]

(***************************************************************************)
(* C4 (as claimed): apply_weighting returns a new instance of the same     *)
(* type with the weighted matrix and the original's window size,           *)
(* vocabulary and configuration, and leaves the original unchanged.        *)
(***************************************************************************)
C4_ApplyWeighting ==
  aw.called =>
    /\ aw.error = ""
    /\ aw.result.type = self_type
    /\ aw.result.matrix = Weighted(aw.weight_func, aw.before.matrix)
    /\ aw.result.window_size = aw.before.window_size
    /\ aw.result.vocabulary = aw.before.vocabulary
    /\ aw.result.config = aw.before.config
    /\ matrix = aw.before.matrix
    /\ window_size = aw.before.window_size
    /\ vocabulary = aw.before.vocabulary
    /\ config = aw.before.config

(***************************************************************************)
(* C5 (as claimed): constructing either variant with a window_size that    *)
(* has not exactly two elements fails with the error of the window-size    *)
(* check, before a sentence is read and with the vocabulary untouched; a   *)
(* window_size of two elements never fails with that error.                *)
(***************************************************************************)
C5_WindowSizeChecked ==
  pc # "new" =>
    IF Len(args.window_size) # 2
    THEN /\ pc = "failed"
         /\ error = WindowError
         /\ nread = 0 /\ sentence = <<>> /\ ~frame.ran
         /\ vocabulary = EmptyDict
    ELSE error # WindowError

(***************************************************************************)
(* C6: with ordered enabled, the k-th token of each side list, as the      *)
(* list stands after threshold filtering, carries the suffix _k, the       *)
(* numbering starting at 1 on each side; with directed enabled the index   *)
(* follows the _left / _right tag, which every token of that side carries. *)
(***************************************************************************)
C6_OrderedTags ==
  (frame.yielded /\ Get(config, "ordered", FALSE)) =>
    LET directed == Get(config, "directed", FALSE)
        Tagged(kept, side) ==
          [k \in 1..Len(kept) |->
             kept[k] \o (IF directed THEN side ELSE "") \o "_" \o ToString(k)]
    IN /\ frame.context_left = Tagged(frame.kept_left, "_left")
       /\ frame.context_right = Tagged(frame.kept_right, "_right")

\* directed and ordered, the filter drops the first left token and the
\* survivor is numbered 1
C6_Witness ==
  /\ frame.yielded
  /\ Get(config, "ordered", FALSE)
  /\ Get(config, "directed", FALSE)
  /\ frame.raw_left = <<"a", "b">>
  /\ frame.kept_left = <<"b">>
  /\ frame.context_left = <<"b_left_1">>

(***************************************************************************)
(* C7 (as claimed): each context's index vector of num_indices entries is  *)
(* split in a first part added as +1 and a rest added as -1 to the focus's *)
(* accumulator; both have num_indices/2 entries when num_indices is even,  *)
(* and for odd num_indices the negative part has one entry fewer than the  *)
(* positive part.                                                          *)
(***************************************************************************)
\* sum over the pair's contexts of the occurrences of d in parts[k]
RECURSIVE Occurrences(_, _)
Occurrences(parts, d) ==
  IF parts = <<>> THEN 0
  ELSE Count(Head(parts), d) + Occurrences(Tail(parts), d)

\* the split of the last pair's index vectors and its accumulation
SplitAccumulates ==
  /\ Len(split.pos) = Len(split.contexts)
  /\ Len(split.neg) = Len(split.contexts)
  /\ \A k \in 1..Len(split.contexts) :
       /\ Len(word_to_col[split.contexts[k]]) = config["num_indices"]
       /\ split.pos[k] \o split.neg[k] = word_to_col[split.contexts[k]]
  /\ \A d \in DOMAIN split.before :
       colfreqs[split.focus][d] =
         split.before[d] + Occurrences(split.pos, d) - Occurrences(split.neg, d)

C8_MissingLowerThreshold ==
  /\ ("lower_threshold" \notin DOMAIN config /\ frame.ran) =>
       /\ pc = "failed"
       /\ error = KeyErrorLower
  /\ (pc = "failed" /\ error = KeyErrorLower) =>
       /\ "lower_threshold" \notin DOMAIN config
       /\ ~frame.yielded
       /\ frame.i = 0
       /\ vocabulary = [t \in {frame.focus} |-> 1]
       /\ emitted = EmptyDict
       /\ colfreqs = EmptyDict
  /\ ("lower_threshold" \notin DOMAIN config /\ pc \in {"building", "built"}) =>
       /\ vocabulary = args.vocabulary
       /\ emitted = EmptyDict
  /\ "lower_threshold" \in DOMAIN config => error # KeyErrorLower

\* the first focus of a sentence of two positions raised the KeyError
C8_Witness ==
  /\ pc = "failed"
  /\ error = KeyErrorLower
  /\ Len(sentence) = 2
  /\ frame.raw_right # <<>>

C10_Step ==
  /\ \A t \in DOMAIN vocabulary :
       t \in DOMAIN vocabulary' /\ vocabulary'[t] >= vocabulary[t]
  /\ (pc' \in {"building", "built"} /\ args'.matrix = None) =>
       /\ DOMAIN vocabulary' \subseteq Tokens
       /\ \A t \in Tokens :
            Get(vocabulary', t, 0) = Processed(occ', sentence', i', j', t)
       /\ pc' = "built" => \A t \in Tokens : Get(vocabulary', t, 0) = occ'[t]
  /\ (pc = "building" /\ frame'.ran /\ frame' # frame) =>
       \A t \in Tokens :
         Get(vocabulary', t, 0) =
           Get(vocabulary, t, 0) + (IF t = frame'.focus THEN 1 ELSE 0)

C10_VocabularyCounts == [][C10_Step]_vars

\* the corpus is consumed, lookups of the filter created entries, and a
\* token was counted three times
C10_Witness ==
  /\ pc = "built"
  /\ matrix.form = "dict"
  /\ "lower_threshold" \in DOMAIN config
  /\ Truthy(config["lower_threshold"])
  /\ \E t \in DOMAIN vocabulary : vocabulary[t] = 3

====
